---- MODULE Spec2Model ----
(***************************************************************************)
(* MC-dropout sampling of modAL (modAL/dropout.py): the dropout-mode       *)
(* controller set_dropout_mode and the prediction sampler get_predictions, *)
(* as a state machine over the train/eval flags of a torch model's         *)
(* modules and the local variables of get_predictions.                     *)
(***************************************************************************)
EXTENDS Integers, Sequences, FiniteSets, TLC

\* ------------------------------------------------------------------ bounds
NumLayers == 3      \* len(list(model.modules())), the root module included
MaxSel    == 2      \* longest explicit dropout_layer_indexes list
MaxRows   == 3      \* most rows of the pool X
MaxCycles == 2      \* largest num_predictions

VARIABLES
    modules,        \* class name of each entry of list(model.modules())
    training,       \* the .training flag of each module (TRUE = train mode)
    pc,             \* position of the caller / of get_predictions
    call,           \* name and arguments of the current top-level call
    training0,      \* the .training flags when that call was entered
    split_args,     \* get_predictions: the chunks of X
    i,              \* get_predictions: number of completed cycles
    s,              \* get_predictions: position in split_args of the next chunk
    probas_1,       \* get_predictions: the per-cycle array under construction
    predictions_1,  \* get_predictions: the list of per-cycle arrays
    error,          \* the exception the call raised, NoError if none
    result,         \* the value the call returned, None if none
    calls           \* the calls made to the model so far by get_predictions

vars == <<modules, training, pc, call, training0, split_args, i, s, probas_1,
          predictions_1, error, result, calls>>

\* ------------------------------------------------------------ Python values
None == [type |-> "NoneType", data |-> <<>>]
NoError == [kind |-> "None", args |-> <<>>]
KeyError(index) == [kind |-> "KeyError", args |-> <<index>>]
RuntimeError == [kind |-> "RuntimeError", args |-> <<>>]
InferError == [kind |-> "InferError", args |-> <<>>]

Min(a, b) == IF a <= b THEN a ELSE b

\* str.startswith
StartsWith(str, prefix) ==
    Len(str) >= Len(prefix) /\ SubSeq(str, 1, Len(prefix)) = prefix

\* ------------------------------------------------------------- the model
Layers == 0 .. (NumLayers - 1)
ClassNames == {"Linear", "Dropout", "Dropout2d"}
\* list(model.modules()): the root container first, then its sub-modules
Nets == {m \in [Layers -> ClassNames \cup {"Sequential"}] :
            /\ m[0] = "Sequential"
            /\ \A l \in Layers \ {0} : m[l] \in ClassNames}

\* a variant that compares the class name with 'Dropout' instead
IsDropoutExact(mods, l) == mods[l] = "Dropout"

IsDropout(mods, l) == StartsWith(mods[l], "Dropout")

\* a variant that switches the whole model, as model.train(mode) does
LayerSetModeGlobal(tr, l, train_mode) == [x \in DOMAIN tr |-> train_mode]

\* a variant that flips the module's flag
LayerSetModeToggle(tr, l, train_mode) == [tr EXCEPT ![l] = ~tr[l]]

\* layer.train() / layer.eval() on a leaf module: sets that module's flag
LayerSetMode(tr, l, train_mode) == [tr EXCEPT ![l] = train_mode]

\* a variant of the explicit-selector loop that skips a non-dropout index
RECURSIVE SetListedSkips(_, _, _, _)
SetListedSkips(tr, mods, idxs, train_mode) ==
    IF idxs = <<>> THEN [training |-> tr, error |-> NoError]
    ELSE SetListedSkips(IF StartsWith(mods[Head(idxs)], "Dropout")
                        THEN [tr EXCEPT ![Head(idxs)] = train_mode] ELSE tr,
                        mods, Tail(idxs), train_mode)

\* a variant that validates the whole list before it switches any layer
SetListedAtomic(tr, mods, idxs, train_mode) ==
    LET bad == {j \in 1 .. Len(idxs) : ~StartsWith(mods[idxs[j]], "Dropout")}
    IN  IF bad # {}
        THEN [training |-> tr,
              error |-> KeyError(idxs[CHOOSE j \in bad : \A k \in bad : j <= k])]
        ELSE [training |-> [l \in DOMAIN tr |->
                               IF \E j \in 1 .. Len(idxs) : idxs[j] = l
                               THEN train_mode ELSE tr[l]],
              error |-> NoError]

\* the explicit-selector loop of set_dropout_mode, in list order
RECURSIVE SetListed(_, _, _, _)
SetListed(tr, mods, idxs, train_mode) ==
    IF idxs = <<>> THEN [training |-> tr, error |-> NoError]
    ELSE LET index == Head(idxs)
         IN  IF IsDropout(mods, index)
             THEN SetListed(LayerSetMode(tr, index, train_mode), mods,
                            Tail(idxs), train_mode)
             ELSE [training |-> tr, error |-> KeyError(index)]

\* the all-dropout-layers loop of set_dropout_mode
SetAll(tr, mods, train_mode) ==
    [l \in DOMAIN mods |->
        IF IsDropout(mods, l) THEN train_mode ELSE tr[l]]

\* set_dropout_mode(model, dropout_layer_indexes, train_mode): the flags
\* it leaves and the exception it raises
set_dropout_mode(tr, mods, dropout_layer_indexes, train_mode) ==
    IF Len(dropout_layer_indexes) # 0
    THEN SetListed(tr, mods, dropout_layer_indexes, train_mode)
    ELSE [training |-> SetAll(tr, mods, train_mode), error |-> NoError]

\* ---------------------------------------------------------------- inputs
RECURSIVE SeqsUpTo(_, _)
SeqsUpTo(S, n) ==
    IF n = 0 THEN {<<>>}
    ELSE LET shorter == SeqsUpTo(S, n - 1)
         IN  shorter \cup {Append(q, x) : q \in shorter, x \in S}

\* explicit selectors choose indices from list(model.modules())
Selectors == SeqsUpTo(Layers, MaxSel)


\* ------------------------------------------------- tensors and the pool X
Tensor(rows) == [type |-> "Tensor", data |-> rows]
Mapping(d) == [type |-> "Mapping", data |-> d]
NdArray(rows) == [type |-> "ndarray", data |-> rows]

Keys == {"input_ids", "attention_mask"}
\* a pool of n rows; row r of the pool is identified by r (Python row r - 1)
TensorPool(n) == Tensor([r \in 1 .. n |-> r])
\* a mapping pool: every key holds the same n rows, cell (k, r) is <<k, r>>
MappingPool(K, n) == Mapping([k \in K |-> [r \in 1 .. n |-> <<k, r>>]])

XTensors == {TensorPool(n) : n \in 0 .. MaxRows}
XMappings == {MappingPool(K, n) : K \in SUBSET Keys, n \in 0 .. MaxRows}
\* containers get_predictions does not support
XOthers == {NdArray([r \in 1 .. MaxRows |-> r])}

\* torch.split(v, split_size) along dim 0: consecutive chunks of split_size
\* rows, the last one shorter; one empty chunk for an empty tensor
TorchSplit(rows, split_size) ==
    LET n == Len(rows)
        num_splits == IF n = 0 THEN 1 ELSE (n + split_size - 1) \div split_size
    IN  [c \in 1 .. num_splits |->
            SubSeq(rows, (c - 1) * split_size + 1, Min(c * split_size, n))]

MaxOf(S) == IF S = {} THEN 0 ELSE CHOOSE x \in S : \A y \in S : y <= x

\* a variant that starts a new dict for every split, so that a chunk holds
\* one key only
SplitMappingOneKey(d, split_size) ==
    LET split_v == [k \in DOMAIN d |-> TorchSplit(d[k], split_size)]
        n == MaxOf({Len(split_v[k]) : k \in DOMAIN d})
        last == CHOOSE k \in DOMAIN d : TRUE
    IN  [c \in 1 .. n |-> Mapping([k \in {last} |-> split_v[k][c]])]

\* the mapping branch: every value is split on its own, and chunk c is the
\* dict of the c-th split of every key that has one
SplitMapping(d, split_size) ==
    LET split_v == [k \in DOMAIN d |-> TorchSplit(d[k], split_size)]
        n == MaxOf({Len(split_v[k]) : k \in DOMAIN d})
    IN  [c \in 1 .. n |->
            Mapping([k \in {kk \in DOMAIN d : Len(split_v[kk]) >= c} |->
                        split_v[k][c]])]

\* the tensor branch
SplitTensor(rows, split_size) ==
    LET split_v == TorchSplit(rows, split_size)
    IN  [c \in 1 .. Len(split_v) |-> Tensor(split_v[c])]

\* the dropout masks one forward pass can draw
Masks == {0, 1}
DropoutActive(tr, mods) == \E l \in DOMAIN mods : IsDropout(mods, l) /\ tr[l]

\* number of rows of a chunk
BatchRows(samples) ==
    IF samples.type = "Mapping"
    THEN MaxOf({Len(samples.data[k]) : k \in DOMAIN samples.data})
    ELSE Len(samples.data)

\* row j of a chunk, as the model's forward pass sees it
BatchRow(samples, j) ==
    IF samples.type = "Mapping"
    THEN [k \in DOMAIN samples.data |-> samples.data[k][j]]
    ELSE samples.data[j]

\* classifier.estimator.infer(samples): one output row per input row, a
\* function of that row and of the dropout mask of this forward pass
infer(samples, mask) ==
    Tensor([j \in 1 .. BatchRows(samples) |->
                [x |-> BatchRow(samples, j), mask |-> mask]])

\* skorch.utils.to_numpy: the same rows as a numpy array
to_numpy(t) == NdArray(t.data)

\* a variant that stacks the new chunk on top
vstackPrepends(a, b) == NdArray(b.data \o a.data)

\* np.vstack of two arrays of rows
vstack(a, b) == NdArray(a.data \o b.data)

\* the default logits_adaptor returns its input unchanged
default_logits_adaptor(input_tensor, samples) == input_tensor
\* a caller-supplied adaptor: marks every row as adapted
custom_logits_adaptor(input_tensor, samples) ==
    Tensor([j \in 1 .. Len(input_tensor.data) |->
                [adapted |-> input_tensor.data[j]]])
Adaptors == {"default_logits_adaptor", "custom_logits_adaptor"}
ApplyAdaptor(name, input_tensor, samples) ==
    IF name = "default_logits_adaptor"
    THEN default_logits_adaptor(input_tensor, samples)
    ELSE custom_logits_adaptor(input_tensor, samples)

\* argument records of get_predictions
Arguments(Xs, sels, cycles, sizes, adaptors) ==
    [X : Xs, dropout_layer_indexes : sels, num_predictions : cycles,
     sample_per_forward_pass : sizes, logits_adaptor : adaptors]

\* ------------------------------------------------------------------ Init
\* no call has been made yet
InitLocals ==
    /\ pc = "idle"
    /\ call = [fn |-> "none"]
    /\ training0 = training
    /\ split_args = <<>>
    /\ i = 0
    /\ s = 0
    /\ probas_1 = None
    /\ predictions_1 = <<>>
    /\ error = NoError
    /\ result = None
    /\ calls = <<>>

\* a model as model.eval() or model.train() leaves it
Init ==
    /\ modules \in Nets
    /\ \E b \in BOOLEAN : training = [l \in Layers |-> b]
    /\ InitLocals

\* a direct call set_dropout_mode(model, idxs, train_mode)
SetDropoutModeCall ==
    /\ pc = "idle"
    /\ \E idxs \in Selectors, train_mode \in BOOLEAN :
         LET r == set_dropout_mode(training, modules, idxs, train_mode)
         IN  /\ call' = [fn |-> "set_dropout_mode",
                         dropout_layer_indexes |-> idxs,
                         train_mode |-> train_mode]
             /\ training0' = training
             /\ training' = r.training
             /\ error' = r.error
    /\ pc' = "called"
    /\ UNCHANGED <<modules, split_args, i, s, probas_1, predictions_1,
                   result, calls>>

\* the same call once more, with the same arguments
SetDropoutModeAgain ==
    /\ pc = "called"
    /\ LET r == set_dropout_mode(training, modules,
                                 call.dropout_layer_indexes, call.train_mode)
       IN  /\ training0' = training
           /\ training' = r.training
           /\ error' = r.error
    /\ pc' = "called_twice"
    /\ UNCHANGED <<modules, call, split_args, i, s, probas_1, predictions_1,
                   result, calls>>

\* get_predictions, lines 290-321: enable dropout, then split X
GetPredictionsBegin(Args) ==
    /\ pc = "idle"
    /\ \E a \in Args :
         LET r == set_dropout_mode(training, modules,
                                   a.dropout_layer_indexes, TRUE)
             supported == a.X.type \in {"Mapping", "Tensor"}
         IN  /\ call' = [fn |-> "get_predictions"] @@ a
             /\ training0' = training
             /\ training' = r.training
             /\ calls' = <<[op |-> "set_dropout_mode", train_mode |-> TRUE]>>
             /\ error' = IF r.error # NoError THEN r.error
                         ELSE IF supported THEN NoError ELSE RuntimeError
             /\ pc' = IF r.error = NoError /\ supported
                      THEN "for_cycle" ELSE "raised"
             /\ split_args' =
                    IF r.error # NoError \/ ~supported THEN <<>>
                    ELSE IF a.X.type = "Mapping"
                    THEN SplitMapping(a.X.data, a.sample_per_forward_pass)
                    ELSE SplitTensor(a.X.data, a.sample_per_forward_pass)
    /\ i' = 0
    /\ predictions_1' = <<>>
    /\ UNCHANGED <<modules, s, probas_1, result>>

\* line 326-329: the next cycle starts
CycleStart ==
    /\ pc = "for_cycle"
    /\ i < call.num_predictions
    /\ probas_1' = None
    /\ s' = 1
    /\ pc' = "for_samples"
    /\ UNCHANGED <<modules, training, call, training0, split_args, i,
                   predictions_1, error, result, calls>>

\* lines 349-365: one forward pass over the next chunk, its dropout mask
\* drawn from masks when a dropout layer is in train mode
Infer(masks) ==
    /\ pc = "for_samples"
    /\ s <= Len(split_args)
    /\ \E mask \in IF DropoutActive(training, modules) THEN masks ELSE {0} :
         LET samples == split_args[s]
             logits == infer(samples, mask)
             prediction == to_numpy(logits)
         IN  /\ probas_1' = IF probas_1 = None THEN prediction
                            ELSE vstack(probas_1, prediction)
             /\ calls' = Append(calls, [op |-> "infer", samples |-> samples,
                                        training |-> training,
                                        logits |-> logits])
    /\ s' = s + 1
    /\ UNCHANGED <<modules, training, pc, call, training0, split_args, i,
                   predictions_1, error, result>>

\* line 354: the forward pass raises
InferRaises ==
    /\ pc = "for_samples"
    /\ s <= Len(split_args)
    /\ calls' = Append(calls, [op |-> "infer", samples |-> split_args[s],
                               training |-> training, logits |-> None])
    /\ error' = InferError
    /\ pc' = "raised"
    /\ UNCHANGED <<modules, training, call, training0, split_args, i, s,
                   probas_1, predictions_1, result>>

\* a variant that releases dropout at the end of every cycle
CycleEndDisables ==
    /\ pc = "for_samples"
    /\ s > Len(split_args)
    /\ predictions_1' = Append(predictions_1, probas_1)
    /\ i' = i + 1
    /\ pc' = "for_cycle"
    /\ training' = [l \in DOMAIN modules |->
                        IF StartsWith(modules[l], "Dropout")
                        THEN FALSE ELSE training[l]]
    /\ calls' = Append(calls, [op |-> "set_dropout_mode", train_mode |-> FALSE])
    /\ UNCHANGED <<modules, call, training0, split_args, s, probas_1, error,
                   result>>

\* line 367: the cycle's array joins the list
CycleEnd ==
    /\ pc = "for_samples"
    /\ s > Len(split_args)
    /\ predictions_1' = Append(predictions_1, probas_1)
    /\ i' = i + 1
    /\ pc' = "for_cycle"
    /\ UNCHANGED <<modules, training, call, training0, split_args, s,
                   probas_1, error, result, calls>>

\* lines 377-380: disable dropout and return
GetPredictionsReturn ==
    /\ pc = "for_cycle"
    /\ i >= call.num_predictions
    /\ LET r == set_dropout_mode(training, modules,
                                 call.dropout_layer_indexes, FALSE)
       IN  /\ training' = r.training
           /\ error' = r.error
           /\ pc' = IF r.error = NoError THEN "returned" ELSE "raised"
           /\ result' = IF r.error = NoError
                        THEN <<predictions_1, predictions_1>> ELSE None
    /\ calls' = Append(calls, [op |-> "set_dropout_mode", train_mode |-> FALSE])
    /\ UNCHANGED <<modules, call, training0, split_args, i, s, probas_1,
                   predictions_1>>

\* the calls of the specification Spec: every model and selector, one pool
\* of each container type; Spec follows the dropout modes, not the
\* outputs, and lets every forward pass draw the same mask
ScopeArguments ==
    Arguments({TensorPool(MaxRows), MappingPool({"input_ids"}, MaxRows)}
                  \cup XOthers,
              Selectors, 1 .. MaxCycles, 1 .. MaxRows,
              {"default_logits_adaptor"})

\* the calls of the specification SpecSampler: every pool, all dropout layers
SamplerArguments ==
    Arguments(XTensors \cup XMappings \cup XOthers, {<<>>}, 1 .. MaxCycles,
              1 .. MaxRows, Adaptors)

Sampling(masks) ==
    CycleStart \/ Infer(masks) \/ InferRaises \/ CycleEnd \/ GetPredictionsReturn

Next ==
    \/ SetDropoutModeCall
    \/ SetDropoutModeAgain
    \/ GetPredictionsBegin(ScopeArguments)
    \/ Sampling({0})

Spec == Init /\ [][Next]_vars

\* the controller alone, on a model whose modules are in any mix of modes
InitDropout ==
    /\ modules \in Nets
    /\ training \in [Layers -> BOOLEAN]
    /\ InitLocals

NextDropout == SetDropoutModeCall \/ SetDropoutModeAgain

SpecDropout == InitDropout /\ [][NextDropout]_vars

\* the sampler on one model: a container, a linear layer, a dropout layer
InitSampler ==
    /\ modules = [l \in Layers |->
                    IF l = 0 THEN "Sequential"
                    ELSE IF l = NumLayers - 1 THEN "Dropout" ELSE "Linear"]
    /\ training = [l \in Layers |-> FALSE]
    /\ InitLocals

NextSampler == GetPredictionsBegin(SamplerArguments) \/ Sampling(Masks)

SpecSampler == InitSampler /\ [][NextSampler]_vars

\* ------------------------------------------------------------ properties

\* the layers a call of set_dropout_mode with this selector applies to
Targeted(mods, dropout_layer_indexes) ==
    IF Len(dropout_layer_indexes) # 0
    THEN {dropout_layer_indexes[j] : j \in 1 .. Len(dropout_layer_indexes)}
    ELSE {l \in DOMAIN mods : IsDropout(mods, l)}

EnableCall == [op |-> "set_dropout_mode", train_mode |-> TRUE]
DisableCall == [op |-> "set_dropout_mode", train_mode |-> FALSE]
InGetPredictions == call.fn = "get_predictions"
InSetDropoutMode == call.fn = "set_dropout_mode"

\* C1: when a forward pass raises inside get_predictions, the error reaches
\* the caller with every targeted dropout layer back in eval mode.
C1_InferErrorRestoresEval ==
    (InGetPredictions /\ pc = "raised" /\ error = InferError) =>
        \A l \in Targeted(modules, call.dropout_layer_indexes) : ~training[l]

\* C2: when get_predictions fails before the first cycle because X is neither
\* a mapping nor a tensor, a model that went in with its dropout layers in
\* eval mode comes out with no dropout layer in train mode.
C2_UnsupportedInputLeavesEval ==
    (/\ InGetPredictions /\ pc = "raised" /\ error = RuntimeError
     /\ \A l \in Layers : IsDropout(modules, l) => ~training0[l])
        => \A l \in Layers : IsDropout(modules, l) => ~training[l]

\* C3: in a get_predictions invocation that has not failed, the calls made
\* to the model are one set_dropout_mode(True), then only inference calls,
\* each with every targeted layer in train mode, and, once it has returned,
\* one final set_dropout_mode(False).
C3_DropoutToggledAroundSampling ==
    (InGetPredictions /\ pc # "raised") =>
        /\ Len(calls) >= 1
        /\ calls[1] = EnableCall
        /\ \A j \in 2 .. Len(calls) :
             \/ /\ calls[j].op = "infer"
                /\ \A l \in Targeted(modules, call.dropout_layer_indexes) :
                     calls[j].training[l]
             \/ /\ j = Len(calls)
                /\ pc = "returned"
                /\ calls[j] = DisableCall
        /\ pc = "returned" =>
             /\ Len(calls) >= 2
             /\ calls[Len(calls)] = DisableCall
             /\ Len(calls) = 2 + call.num_predictions * Len(split_args)

\* a returned invocation with an explicit selector and several inference calls
C3_Witness ==
    /\ InGetPredictions
    /\ pc = "returned"
    /\ call.dropout_layer_indexes # <<>>
    /\ Len(split_args) >= 2
    /\ call.num_predictions >= 2
    /\ Len(calls) >= 6

\* the listed indices that do not resolve to a dropout layer
Offending(mods, idxs) == {j \in 1 .. Len(idxs) : ~IsDropout(mods, idxs[j])}

\* C4: set_dropout_mode with a non-empty selector raises an error naming the
\* first listed index that is not a dropout layer whenever there is one.
C4_NonDropoutIndexRaises ==
    (/\ InSetDropoutMode
     /\ Offending(modules, call.dropout_layer_indexes) # {})
        => /\ error.kind = "KeyError"
           /\ \E j \in Offending(modules, call.dropout_layer_indexes) :
                /\ error.args = <<call.dropout_layer_indexes[j]>>
                /\ \A k \in Offending(modules, call.dropout_layer_indexes) :
                     j <= k

\* a call whose list holds a dropout layer and then a non-dropout one
C4_Witness ==
    /\ InSetDropoutMode
    /\ pc = "called"
    /\ Len(call.dropout_layer_indexes) = 2
    /\ IsDropout(modules, call.dropout_layer_indexes[1])
    /\ ~IsDropout(modules, call.dropout_layer_indexes[2])
    /\ error = KeyError(call.dropout_layer_indexes[2])

\* C5: set_dropout_mode with an empty selector raises nothing and leaves
\* every module whose class name starts with 'Dropout' in the requested mode.
C5_EmptySelectorSetsAllDropout ==
    (InSetDropoutMode /\ call.dropout_layer_indexes = <<>>) =>
        /\ error = NoError
        /\ \A l \in Layers :
             StartsWith(modules[l], "Dropout") => training[l] = call.train_mode

\* an empty-selector call that switched a Dropout and a Dropout2d layer
C5_Witness ==
    /\ InSetDropoutMode
    /\ pc = "called"
    /\ call.dropout_layer_indexes = <<>>
    /\ \E l, m \in Layers :
         /\ modules[l] = "Dropout" /\ modules[m] = "Dropout2d"
         /\ training0[l] # training[l] /\ training0[m] # training[m]

\* C6: set_dropout_mode, called directly or by get_predictions, changes the
\* mode of no module outside its target set, and never that of the root
\* module, the model's global flag.
C6_UntargetedModulesKeepMode ==
    (InSetDropoutMode \/ InGetPredictions) =>
        /\ \A l \in Layers \ Targeted(modules, call.dropout_layer_indexes) :
             training[l] = training0[l]
        /\ training[0] = training0[0]

\* a returned get_predictions with an explicit selector that left a dropout
\* layer outside the list in train mode and the listed one in eval mode
C6_Witness ==
    /\ InGetPredictions
    /\ pc = "returned"
    /\ call.dropout_layer_indexes # <<>>
    /\ training[0]
    /\ \E l \in Layers \ Targeted(modules, call.dropout_layer_indexes) :
         IsDropout(modules, l) /\ training[l]
    /\ \E l \in Targeted(modules, call.dropout_layer_indexes) : ~training[l]

\* C7: a second set_dropout_mode call with the same arguments changes no
\* module's mode and raises exactly what the first call raised.
C7_SetDropoutModeIdempotent ==
    [][(pc = "called" /\ pc' = "called_twice")
          => (training' = training /\ error' = error)]_vars

\* a repeated call that switched a layer and then raised
C7_Witness ==
    /\ pc = "called_twice"
    /\ error.kind = "KeyError"
    /\ Len(call.dropout_layer_indexes) = 2
    /\ IsDropout(modules, call.dropout_layer_indexes[1])
    /\ training[call.dropout_layer_indexes[1]] = call.train_mode
    /\ \E l \in Layers : training[l] # call.train_mode

\* the rows of a sequence of row blocks, in order
RECURSIVE ConcatRows(_)
ConcatRows(blocks) ==
    IF blocks = <<>> THEN <<>>
    ELSE Head(blocks) \o ConcatRows(Tail(blocks))

\* the inference call of cycle c on chunk k, in a run that has not failed
InferCall(c, k) == calls[1 + (c - 1) * Len(split_args) + k]

\* C8: every per-cycle array of a returned get_predictions is the stack of
\* logits_adaptor(infer(chunk), chunk) over the chunks.
C8_LogitsAdaptorApplied ==
    (InGetPredictions /\ pc = "returned") =>
        \A c \in 1 .. Len(predictions_1) :
            predictions_1[c].data =
                ConcatRows([k \in 1 .. Len(split_args) |->
                    to_numpy(ApplyAdaptor(call.logits_adaptor,
                                          InferCall(c, k).logits,
                                          InferCall(c, k).samples)).data])

\* C9: a tensor X is split into chunks of at most sample_per_forward_pass
\* rows whose concatenation is X, every cycle runs inference on the chunks
\* in that order, and every per-cycle array has the rows of X's outputs, row
\* r being the output the forward pass returned for row r of X.
C9_TensorChunksKeepRowOrder ==
    (InGetPredictions /\ call.X.type = "Tensor" /\ pc # "raised") =>
        LET N == Len(call.X.data)
            n == Len(split_args)
        IN  /\ \A c \in 1 .. n :
                 Len(split_args[c].data) <= call.sample_per_forward_pass
            /\ ConcatRows([c \in 1 .. n |-> split_args[c].data]) = call.X.data
            /\ \A j \in 2 .. Len(calls) :
                 calls[j].op = "infer" =>
                     calls[j].samples = split_args[((j - 2) % n) + 1]
            /\ \A c \in 1 .. Len(predictions_1) :
                 /\ Len(predictions_1[c].data) = N
                 /\ predictions_1[c].data =
                        ConcatRows([k \in 1 .. n |-> InferCall(c, k).logits.data])
                 /\ \A r \in 1 .. N :
                      predictions_1[c].data[r].x = call.X.data[r]

\* a returned run over a pool of MaxRows rows whose last chunk is shorter
\* than the others, with two chunks of a cycle under different masks
C9_Witness ==
    /\ InGetPredictions
    /\ pc = "returned"
    /\ call.X = TensorPool(MaxRows)
    /\ Len(split_args) >= 2
    /\ Len(split_args[1].data) = call.sample_per_forward_pass
    /\ Len(split_args[Len(split_args)].data) < call.sample_per_forward_pass
    /\ Len(predictions_1) = MaxCycles
    /\ \E c \in 1 .. Len(predictions_1) :
         predictions_1[c].data[1].mask # predictions_1[c].data[MaxRows].mask

\* C10: a mapping X, every key holding the pool's rows, is split so that
\* every chunk has every key of X and position j of chunk c is row
\* (c - 1) * sample_per_forward_pass + j of X under every key; inference
\* sees these chunks only.
C10_MappingChunksAligned ==
    (InGetPredictions /\ call.X.type = "Mapping" /\ pc # "raised") =>
        /\ \A c \in 1 .. Len(split_args) :
             /\ DOMAIN split_args[c].data = DOMAIN call.X.data
             /\ \A k \in DOMAIN split_args[c].data :
                  /\ Len(split_args[c].data[k]) = BatchRows(split_args[c])
                  /\ \A j \in 1 .. Len(split_args[c].data[k]) :
                       split_args[c].data[k][j] =
                           call.X.data[k][(c - 1) * call.sample_per_forward_pass + j]
        /\ \A j \in 2 .. Len(calls) :
             calls[j].op = "infer" =>
                 \E c \in 1 .. Len(split_args) : calls[j].samples = split_args[c]

\* a forward pass over the second chunk of a two-key mapping
C10_Witness ==
    /\ InGetPredictions
    /\ call.X = MappingPool(Keys, MaxRows)
    /\ Len(split_args) >= 2
    /\ Len(calls) >= 3
    /\ calls[3].op = "infer"
    /\ calls[3].samples = split_args[2]
    /\ calls[3].logits # None

TypeError == [kind |-> "TypeError", args |-> <<>>]

\* C11: a returned get_predictions hands back one list, the Cycle List: one
\* per-cycle array for each of the num_predictions cycles, in cycle order.
C11_ReturnsTheCycleList ==
    (InGetPredictions /\ pc = "returned") =>
        /\ Len(result) = call.num_predictions
        /\ \A c \in 1 .. Len(result) :
             result[c] \in {None} \cup {NdArray(predictions_1[c].data)}

\* C13: get_predictions given an X that is neither a mapping nor a tensor
\* raises a TypeError, and has called inference not once.
C13_UnsupportedInputIsTypeError ==
    (InGetPredictions /\ call.X.type \notin {"Mapping", "Tensor"}
                      /\ pc # "idle") =>
        /\ pc = "raised"
        /\ error.kind = TypeError.kind
        /\ \A j \in 1 .. Len(calls) : calls[j].op # "infer"

\* ----------------------------------------------------- utils/data.py
MaxBlocks == 3      \* most blocks handed to data_vstack / data_hstack

\* the block types the two functions dispatch on, and one they do not know
SupportedTypes == {"sparse", "DataFrame", "ndarray", "list", "Tensor"}
BlockTypes == SupportedTypes \cup {"tuple"}

\* a block of one row and one column
Block(type, cell) == [type |-> type, data |-> <<<<cell>>>>]

\* sequences of one to MaxBlocks blocks of one type
BlockSeqs ==
    UNION {[1 .. n -> {Block(type, cell) : cell \in {1, 2}}] :
             type \in BlockTypes, n \in 1 .. MaxBlocks}

\* the rows of the blocks, one block under the other
VStackRows(blocks) == ConcatRows([b \in DOMAIN blocks |-> blocks[b].data])

\* the rows of the blocks, one block beside the other
HStackRows(blocks) ==
    [r \in 1 .. Len(blocks[1].data) |->
        ConcatRows([b \in DOMAIN blocks |-> blocks[b].data[r]])]

Returns(value) == [result |-> value, error |-> NoError]
Raises(err) == [result |-> None, error |-> err]

data_vstack(blocks) ==
    IF \E b \in DOMAIN blocks : blocks[b].type = "sparse"
    THEN Returns([type |-> "sparse", data |-> VStackRows(blocks)])
    ELSE IF blocks[1].type \in {"DataFrame", "ndarray", "list", "Tensor"}
    THEN Returns([type |-> blocks[1].type, data |-> VStackRows(blocks)])
    ELSE Raises(TypeError)

\* the DataFrame branch computes pd.concat and drops it; the last line
\* builds a TypeError and drops it: both paths end the function with None
data_hstack(blocks) ==
    IF \E b \in DOMAIN blocks : blocks[b].type = "sparse"
    THEN Returns([type |-> "sparse", data |-> HStackRows(blocks)])
    ELSE IF blocks[1].type = "DataFrame"
    THEN Returns(None)
    ELSE IF blocks[1].type \in {"ndarray", "list", "Tensor"}
    THEN Returns([type |-> blocks[1].type, data |-> HStackRows(blocks)])
    ELSE Returns(None)

\* a call data_vstack(blocks)
DataVstackCall ==
    /\ pc = "idle"
    /\ \E blocks \in BlockSeqs :
         /\ call' = [fn |-> "data_vstack", blocks |-> blocks]
         /\ result' = data_vstack(blocks).result
         /\ error' = data_vstack(blocks).error
         /\ pc' = IF data_vstack(blocks).error = NoError
                  THEN "returned" ELSE "raised"
    /\ UNCHANGED <<modules, training, training0, split_args, i, s, probas_1,
                   predictions_1, calls>>

\* a call data_hstack(blocks)
DataHstackCall ==
    /\ pc = "idle"
    /\ \E blocks \in BlockSeqs :
         /\ call' = [fn |-> "data_hstack", blocks |-> blocks]
         /\ result' = data_hstack(blocks).result
         /\ error' = data_hstack(blocks).error
         /\ pc' = IF data_hstack(blocks).error = NoError
                  THEN "returned" ELSE "raised"
    /\ UNCHANGED <<modules, training, training0, split_args, i, s, probas_1,
                   predictions_1, calls>>

NextData == DataVstackCall \/ DataHstackCall

SpecData == InitSampler /\ [][NextData]_vars

\* C20: data_hstack returns the stacked container, of the blocks' type, for
\* every supported block type and raises TypeError for any other type, as
\* data_vstack does; it never returns None.
C20_HstackReturnsOrRaises ==
    (call.fn = "data_hstack" /\ pc # "idle") =>
        IF call.blocks[1].type \in SupportedTypes
        THEN /\ pc = "returned"
             /\ result = [type |-> call.blocks[1].type,
                          data |-> HStackRows(call.blocks)]
        ELSE /\ pc = "raised"
             /\ error = TypeError

\* ------------------------------------------------- floating point values
\* A probability x is held as the integer x * One; an entropy h is held as
\* the integer h * One * 10^6; NaN is a value of its own.
One == 12
NaN == [nan |-> TRUE, v |-> 0]
Float(v) == [nan |-> FALSE, v |-> v]

\* ln(n) * 10^6 for n in 1 .. One, with ln(a * b) = ln(a) + ln(b) kept exact
Ln == <<0, 693147, 1098612, 1386294, 1609438, 1791759,
        1945910, 2079441, 2197224, 2302585, 2397895, 2484906>>

\* scipy.special.entr: -x ln x for x > 0, 0 for x = 0, NaN for NaN
entr(x) ==
    IF x.nan THEN NaN
    ELSE IF x.v = 0 THEN Float(0)
    ELSE Float(x.v * (Ln[One] - Ln[x.v]))

RECURSIVE SumSeq(_)
SumSeq(xs) == IF xs = <<>> THEN 0 ELSE Head(xs).v + SumSeq(Tail(xs))

AnyNaN(xs) == \E j \in DOMAIN xs : xs[j].nan
NonNaN(xs) == SelectSeq(xs, LAMBDA x : ~x.nan)

\* the largest r with r * r <= n, for lo <= r <= hi
RECURSIVE SqrtBetween(_, _, _)
SqrtBetween(n, lo, hi) ==
    IF lo = hi THEN lo
    ELSE LET mid == (lo + hi + 1) \div 2
         IN  IF mid * mid <= n THEN SqrtBetween(n, mid, hi)
             ELSE SqrtBetween(n, lo, mid - 1)

\* np.sum(xs): NaN as soon as one entry is NaN
np_sum(xs) == IF AnyNaN(xs) THEN NaN ELSE Float(SumSeq(xs))

\* np.sum without the where mask
np_sum_wherePropagates(xs) == IF AnyNaN(xs) THEN NaN ELSE Float(SumSeq(xs))

\* np.sum(xs, where=~np.isnan(xs)): 0 when no entry is left
np_sum_where(xs) == Float(SumSeq(NonNaN(xs)))

\* np.mean(xs, where=~np.isnan(xs)): NaN (and a warning) when no entry is left
np_mean_where(xs) ==
    IF NonNaN(xs) = <<>> THEN NaN
    ELSE Float(SumSeq(NonNaN(xs)) \div Len(NonNaN(xs)))

\* np.nanmean in the place of np.mean
np_meanSkipsNaN(xs) == np_mean_where(xs)

\* np.mean(xs)
np_mean(xs) == IF AnyNaN(xs) THEN NaN ELSE Float(SumSeq(xs) \div Len(xs))

\* np.std(xs), held as std * One * 100
np_std(xs) ==
    IF AnyNaN(xs) THEN NaN
    ELSE LET n == Len(xs)
             squares == SumSeq([j \in DOMAIN xs |-> Float(xs[j].v * xs[j].v)])
             total == SumSeq(xs)
         IN  Float(SqrtBetween((n * squares - total * total) * 10000,
                               0, 46340) \div n)

\* np.amax(xs, initial=initial, where=~np.isnan(xs))
np_amax_where(xs, initial) ==
    Float(MaxOf({initial} \cup {xs[j].v : j \in {k \in DOMAIN xs : ~xs[k].nan}}))

\* the division left out
DivideKeeps(x, n) == x

\* x / n for a number n
Divide(x, n) == IF x.nan THEN NaN ELSE Float(x.v \div n)

\* np.subtract(x, y)
Subtract(x, y) == IF x.nan \/ y.nan THEN NaN ELSE Float(x.v - y.v)

\* ------------------------------------------------------------ aggregators
MaxClasses == 2     \* most classes of a prediction row

\* Python sequences as the aggregators receive them
List(items) == [type |-> "list", data |-> items]
Tuple(items) == [type |-> "tuple", data |-> items]

AttributeError == [kind |-> "AttributeError", args |-> <<>>]

\* proba[0].shape exists: the first element of proba is an array
HasShape(proba) == proba.data[1].type = "ndarray"

\* np.stack(proba, axis=len(proba[0].shape)): the cycle axis comes last,
\* proba_stacked[instance][class][cycle]
np_stack(proba) ==
    [n \in DOMAIN proba.data[1].data |->
        [c \in DOMAIN proba.data[1].data[n] |->
            [t \in DOMAIN proba.data |-> proba.data[t].data[n][c]]]]

\* entropy_sum(values, axis=-1) on one slice of the last axis
entropy_sum(values) == np_sum_where([j \in DOMAIN values |-> entr(values[j])])

_mean_standard_deviation(proba) ==
    IF ~HasShape(proba) THEN Raises(AttributeError)
    ELSE LET proba_stacked == np_stack(proba)
             standard_deviation_class_vise ==
                 [n \in DOMAIN proba_stacked |->
                     [c \in DOMAIN proba_stacked[n] |->
                         np_std(proba_stacked[n][c])]]
         IN  Returns(NdArray([n \in DOMAIN proba_stacked |->
                 np_mean_where(standard_deviation_class_vise[n])]))

_entropy(proba) ==
    IF ~HasShape(proba) THEN Raises(AttributeError)
    ELSE LET proba_stacked == np_stack(proba)
             entropy_classes ==
                 [n \in DOMAIN proba_stacked |->
                     [c \in DOMAIN proba_stacked[n] |->
                         entropy_sum(proba_stacked[n][c])]]
         IN  Returns(NdArray([n \in DOMAIN proba_stacked |->
                 np_mean_where(entropy_classes[n])]))

_variation_ratios(proba) ==
    IF ~HasShape(proba) THEN Raises(AttributeError)
    ELSE LET proba_stacked == np_stack(proba)
             valuesDCMean ==
                 [n \in DOMAIN proba_stacked |->
                     [c \in DOMAIN proba_stacked[n] |->
                         np_mean(proba_stacked[n][c])]]
         IN  Returns(NdArray([n \in DOMAIN proba_stacked |->
                 Subtract(Float(One), np_amax_where(valuesDCMean[n], 0))]))

_bald_divergence(proba) ==
    IF ~HasShape(proba) THEN Raises(AttributeError)
    ELSE LET proba_stacked == np_stack(proba)
             f_x == [n \in DOMAIN proba_stacked |->
                       [c \in DOMAIN proba_stacked[n] |->
                           Divide(entropy_sum(proba_stacked[n][c]),
                                  Len(proba.data))]]
             average_score ==
                 [n \in DOMAIN proba_stacked |->
                     [c \in DOMAIN proba_stacked[n] |->
                         Divide(np_sum(proba_stacked[n][c]), Len(proba.data))]]
             g_x == [n \in DOMAIN proba_stacked |->
                       [c \in DOMAIN proba_stacked[n] |->
                           entropy_sum(<<average_score[n][c]>>)]]
             diff == [n \in DOMAIN proba_stacked |->
                        [c \in DOMAIN proba_stacked[n] |->
                            Subtract(g_x[n][c], f_x[n][c])]]
         IN  Returns(NdArray([n \in DOMAIN proba_stacked |->
                 np_sum_where(diff[n])]))

Aggregators == {"_mean_standard_deviation", "_entropy", "_variation_ratios",
                "_bald_divergence"}

Aggregate(fn, proba) ==
    CASE fn = "_mean_standard_deviation" -> _mean_standard_deviation(proba)
      [] fn = "_entropy" -> _entropy(proba)
      [] fn = "_variation_ratios" -> _variation_ratios(proba)
      [] fn = "_bald_divergence" -> _bald_divergence(proba)

\* class values of a prediction: 0.5, 1 and a padded slot
Grid == {Float(One \div 2), Float(One), NaN}

\* prediction arrays of n instances
Arrays(n) == {NdArray(rows) : rows \in [1 .. n -> [1 .. MaxClasses -> Grid]]}

\* 3 cycles, 2 instances, 2 classes, every prediction [0.5, 0.5]
AllHalves ==
    List([t \in 1 .. 3 |->
            NdArray([n \in 1 .. 2 |-> [c \in 1 .. 2 |-> Float(One \div 2)]])])

\* Cycle Lists: every list of one-instance arrays, every list that repeats
\* one two-instance array, and the all-halves list
CycleLists ==
    {List(cycles) : cycles \in UNION {[1 .. T -> Arrays(1)] : T \in 1 .. MaxCycles}}
    \cup {List([t \in 1 .. T |-> a]) : a \in Arrays(2), T \in 1 .. MaxCycles}
    \cup {AllHalves}

\* a call fn(proba) of one aggregator
AggregatorCall(fn) ==
    /\ pc = "idle"
    /\ \E proba \in CycleLists :
         /\ call' = [fn |-> fn, proba |-> proba]
         /\ result' = Aggregate(fn, proba).result
         /\ error' = Aggregate(fn, proba).error
         /\ pc' = IF Aggregate(fn, proba).error = NoError
                  THEN "returned" ELSE "raised"
    /\ UNCHANGED <<modules, training, training0, split_args, i, s, probas_1,
                   predictions_1, calls>>

NextAggregators ==
    \/ AggregatorCall("_mean_standard_deviation")
    \/ AggregatorCall("_entropy")
    \/ AggregatorCall("_variation_ratios")
    \/ AggregatorCall("_bald_divergence")

SpecAggregators == InitSampler /\ [][NextAggregators]_vars

\* ------------------------------------------------ aggregator properties
InAggregator(fn) == call.fn = fn /\ pc # "idle"

\* the values of instance n, class c over the cycles of the Cycle List
OverCycles(proba, n, c) == [t \in DOMAIN proba.data |-> proba.data[t].data[n][c]]

Instances(proba) == DOMAIN proba.data[1].data
Classes(proba, n) == DOMAIN proba.data[1].data[n]

\* C16: _entropy gives each instance the mean over the cycles of the
\* per-cycle entropy, the per-cycle entropy being the sum over the classes of
\* -x ln x; 3 cycles of [0.5, 0.5] give ln 2.
C16_EntropyIsMeanOverCycles ==
    InAggregator("_entropy") =>
        /\ pc = "returned"
        /\ \A n \in Instances(call.proba) :
             LET per_cycle ==
                   [t \in DOMAIN call.proba.data |->
                       Float(SumSeq(NonNaN(
                           [c \in Classes(call.proba, n) |->
                               entr(call.proba.data[t].data[n][c])])))]
             IN  result.data[n] =
                   Float(SumSeq(per_cycle) \div Len(per_cycle))
        /\ call.proba = AllHalves =>
             \A n \in Instances(call.proba) : result.data[n] = Float(One * Ln[2])

\* every cycle of the Cycle List holds the same array, free of NaN
IdenticalCycles(proba) ==
    /\ \A t \in DOMAIN proba.data : proba.data[t] = proba.data[1]
    /\ \A n \in Instances(proba) : \A c \in Classes(proba, n) :
         ~proba.data[1].data[n][c].nan

\* C17: on a Cycle List of identical NaN-free cycles, one cycle included,
\* _bald_divergence and _mean_standard_deviation give every instance 0.
C17_IdenticalCyclesScoreZero ==
    (/\ InAggregator("_bald_divergence") \/ InAggregator("_mean_standard_deviation")
     /\ IdenticalCycles(call.proba)) =>
        /\ pc = "returned"
        /\ \A n \in Instances(call.proba) : result.data[n] = Float(0)

\* BALD of several identical cycles whose array has uncertain and certain rows
C17_Witness ==
    /\ InAggregator("_bald_divergence")
    /\ pc = "returned"
    /\ IdenticalCycles(call.proba)
    /\ Len(call.proba.data) >= 2
    /\ Len(call.proba.data[1].data) = 2
    /\ call.proba.data[1].data[1][1] = Float(One \div 2)
    /\ call.proba.data[1].data[2][1] = Float(One)

\* the class averages of instance n that are not NaN
Averages(proba, n) ==
    {SumSeq(OverCycles(proba, n, c)) \div Len(proba.data) :
        c \in {k \in Classes(proba, n) : ~AnyNaN(OverCycles(proba, n, k))}}

\* C18: _variation_ratios gives each instance 1 minus its largest class
\* average that is not NaN, and 1 - 0 when every class average is NaN; the
\* score lies in [0, 1], and all-[0.5, 0.5] predictions give 0.5.
C18_VariationRatios ==
    InAggregator("_variation_ratios") =>
        /\ pc = "returned"
        /\ \A n \in Instances(call.proba) :
             /\ ~result.data[n].nan
             /\ IF Averages(call.proba, n) = {}
                THEN result.data[n].v = One - 0
                ELSE /\ One - result.data[n].v \in Averages(call.proba, n)
                     /\ \A a \in Averages(call.proba, n) :
                          a <= One - result.data[n].v
             /\ result.data[n].v \in 0 .. One
        /\ call.proba = AllHalves =>
             \A n \in Instances(call.proba) : result.data[n] = Float(One \div 2)

\* two cycles whose first class is padded in one cycle only
C18_Witness ==
    /\ InAggregator("_variation_ratios")
    /\ pc = "returned"
    /\ Len(call.proba.data) = 2
    /\ call.proba.data[1].data[1] = <<NaN, Float(One \div 2)>>
    /\ call.proba.data[2].data[1] = <<Float(One), Float(One)>>
    /\ result.data[1] = Float(One \div 4)

\* some class of instance n is free of NaN in every cycle
HasFullClass(proba, n) ==
    \E c \in Classes(proba, n) : ~AnyNaN(OverCycles(proba, n, c))

\* C19: each of the four aggregators returns without raising, all-NaN
\* instances included, and gives a score that is not NaN to every instance
\* that has a class free of NaN in every cycle.
C19_NaNTolerant ==
    (call.fn \in Aggregators /\ pc # "idle") =>
        /\ pc = "returned"
        /\ error = NoError
        /\ \A n \in Instances(call.proba) :
             HasFullClass(call.proba, n) => ~result.data[n].nan

\* mean standard deviation of an array with a half padded instance and an
\* all-NaN instance
C19_Witness ==
    /\ InAggregator("_mean_standard_deviation")
    /\ pc = "returned"
    /\ Len(call.proba.data) >= 2
    /\ call.proba.data[1].data = << <<Float(One \div 2), NaN>>, <<NaN, NaN>> >>
    /\ ~result.data[1].nan
    /\ result.data[2].nan

\* -------------------------------------------------------- query strategies
ConfigurationError == [kind |-> "ConfigurationError", args |-> <<>>]

\* x + y
Add(x, y) == IF x.nan \/ y.nan THEN NaN ELSE Float(x.v + y.v)

\* the k indices of values with the largest scores, largest first, chosen
\* one at a time: of the largest left, the one of lowest index is taken
RECURSIVE TopIndices(_, _, _)
TopIndices(values, k, taken) ==
    IF k = 0 THEN <<>>
    ELSE LET left == (DOMAIN values) \ taken
             best == {j \in left : \A m \in left : values[m].v <= values[j].v}
             first == CHOOSE j \in best : \A m \in best : j <= m
         IN  <<first - 1>> \o TopIndices(values, k - 1, taken \cup {first})

\* values[query_idx]
Take(values, query_idx) ==
    [j \in DOMAIN query_idx |-> values[query_idx[j] + 1]]

\* multi_argmax(values, n_instances): the n_instances best indices, ties in
\* index order, and their values
multi_argmax(values, n_instances) ==
    IF n_instances > Len(values) THEN {Raises(ConfigurationError)}
    ELSE LET max_idx == TopIndices(values, n_instances, {})
         IN  {Returns(<<max_idx, Take(values, max_idx)>>)}

\* shuffled_argmax(values, n_instances): the n_instances best indices under
\* some shuffle of the ties, and their values
shuffled_argmax(values, n_instances) ==
    IF n_instances > Len(values) THEN {Raises(ConfigurationError)}
    ELSE {Returns(<<query_idx, Take(values, query_idx)>>) :
            query_idx \in
              {q \in [1 .. n_instances -> 0 .. Len(values) - 1] :
                 /\ \A a, b \in DOMAIN q : a < b =>
                      /\ q[a] # q[b]
                      /\ values[q[a] + 1].v >= values[q[b] + 1].v
                 /\ \A m \in DOMAIN values :
                      (\A a \in DOMAIN q : q[a] # m - 1) =>
                        \A a \in DOMAIN q : values[m].v <= values[q[a] + 1].v}}

Strategies == {"mc_dropout_bald", "mc_dropout_mean_st",
               "mc_dropout_max_entropy", "mc_dropout_max_variationRatios"}

\* the aggregator of each single-metric strategy
MetricOf(strategy) ==
    CASE strategy = "mc_dropout_bald" -> "_bald_divergence"
      [] strategy = "mc_dropout_mean_st" -> "_mean_standard_deviation"
      [] strategy = "mc_dropout_max_entropy" -> "_entropy"
      [] strategy = "mc_dropout_max_variationRatios" -> "_variation_ratios"

\* the averaged scores with their sign turned
AverageScoresNegates(a, b) == [n \in DOMAIN a |-> Float(0 - a[n].v)]

\* (metric(predictions_1) + metric(predictions_2)) / 2
AverageScores(a, b) == [n \in DOMAIN a |-> Divide(Add(a[n], b[n]), 2)]

\* a strategy that selects at most as many instances as the pool has
StrategyOutcomesClamps(strategy, predictions, n_instances, random_tie_break) ==
    LET m1 == Aggregate(MetricOf(strategy), predictions.data[1])
        m2 == Aggregate(MetricOf(strategy), predictions.data[2])
        scores == AverageScores(m1.result.data, m2.result.data)
    IN  multi_argmax(scores, Min(n_instances, Len(scores)))

\* the body of a single-metric strategy after get_predictions has returned
\* predictions: unpack the pair, score, select
StrategyOutcomes(strategy, predictions, n_instances, random_tie_break) ==
    LET m1 == Aggregate(MetricOf(strategy), predictions.data[1])
        m2 == Aggregate(MetricOf(strategy), predictions.data[2])
        scores == AverageScores(m1.result.data, m2.result.data)
    IN  IF m1.error # NoError THEN {Raises(m1.error)}
        ELSE IF m2.error # NoError THEN {Raises(m2.error)}
        ELSE IF ~random_tie_break THEN multi_argmax(scores, n_instances)
        ELSE shuffled_argmax(scores, n_instances)

Range(f) == {f[x] : x \in DOMAIN f}

\* the metric names of mc_dropout_multi, in the order it tests them
MetricNames == <<"bald", "mean_st", "max_entropy", "max_var">>
MetricNamed(name) ==
    CASE name = "bald" -> "_bald_divergence"
      [] name = "mean_st" -> "_mean_standard_deviation"
      [] name = "max_entropy" -> "_entropy"
      [] name = "max_var" -> "_variation_ratios"

\* the body of mc_dropout_multi after get_predictions has returned
\* predictions: every requested aggregator is handed predictions as it is
mc_dropout_multi(predictions, query_strategies) ==
    LET requested == SelectSeq(MetricNames, LAMBDA name : name \in query_strategies)
        outs == [j \in DOMAIN requested |->
                    Aggregate(MetricNamed(requested[j]), predictions)]
        failed == {j \in DOMAIN outs : outs[j].error # NoError}
    IN  IF failed # {}
        THEN Raises(outs[CHOOSE j \in failed : \A m \in failed : j <= m].error)
        ELSE Returns(<<None, [name \in query_strategies |->
                 outs[CHOOSE j \in DOMAIN requested : requested[j] = name].result]>>)

\* how the model's outputs for one instance vary over the cycles
Behaviours == {"certain", "uncertain", "flipping"}

\* the prediction row of an instance in cycle t
PredictionRow(behaviour, t) ==
    [c \in 1 .. MaxClasses |->
        CASE behaviour = "certain" -> IF c = 1 THEN Float(One) ELSE Float(0)
          [] behaviour = "uncertain" ->
                IF c <= 2 THEN Float(One \div 2) ELSE Float(0)
          [] behaviour = "flipping" ->
                IF c = 2 - (t % 2) THEN Float(One) ELSE Float(0)]

\* the lists predictions_1 that get_predictions can build on the pool X:
\* num_cycles arrays, each with one row for every row of X
Predictions(X, num_cycles) ==
    {[t \in 1 .. num_cycles |->
         NdArray([n \in DOMAIN X.data |-> PredictionRow(behaviours[n], t)])] :
       behaviours \in [DOMAIN X.data -> Behaviours]}

\* a variant whose second list comes from a sampling pass of its own, here
\* one that repeats the outputs of the first cycle
get_predictionsTwoPasses(cycles) ==
    Tuple(<<List(cycles), List([t \in DOMAIN cycles |-> cycles[1]])>>)

\* what get_predictions returns when it has built the list cycles
get_predictions(cycles) == Tuple(<<List(cycles), List(cycles)>>)

\* the dropout modes get_predictions leaves behind when it returns
Sampled(tr, mods, dropout_layer_indexes) ==
    set_dropout_mode(set_dropout_mode(tr, mods, dropout_layer_indexes,
                                      TRUE).training,
                     mods, dropout_layer_indexes, FALSE).training

\* the calls of the strategies: tensor pools with a row at least, default
\* selector, chunk size and adaptor
StrategyArguments ==
    [X : XTensors \ {TensorPool(0)}, n_instances : 1 .. MaxRows + 1,
     random_tie_break : BOOLEAN, num_cycles : 1 .. MaxCycles]

\* the calls of mc_dropout_multi, which makes no use of n_instances and
\* random_tie_break: they keep their defaults
MultiArguments ==
    {a \in StrategyArguments : a.n_instances = 1 /\ ~a.random_tie_break}

\* a call strategy(classifier, X, n_instances, random_tie_break, num_cycles)
\* of a single-metric strategy, its sampling pass run to the end
StrategyCall(strategy) ==
    /\ pc = "idle"
    /\ \E a \in StrategyArguments :
         \E cycles \in Predictions(a.X, a.num_cycles) :
           \E out \in StrategyOutcomes(strategy, get_predictions(cycles),
                                       a.n_instances, a.random_tie_break) :
             /\ call' = [fn |-> strategy] @@ a
             /\ predictions_1' = cycles
             /\ result' = out.result
             /\ error' = out.error
             /\ pc' = IF out.error = NoError THEN "returned" ELSE "raised"
    /\ training0' = training
    /\ training' = Sampled(training, modules, <<>>)
    /\ UNCHANGED <<modules, split_args, i, s, probas_1, calls>>

\* a call mc_dropout_multi(classifier, X, query_strategies, num_cycles),
\* its sampling pass run to the end
McDropoutMultiCall ==
    /\ pc = "idle"
    /\ \E a \in MultiArguments, query_strategies \in SUBSET Range(MetricNames) :
         \E cycles \in Predictions(a.X, a.num_cycles) :
           LET out == mc_dropout_multi(get_predictions(cycles), query_strategies)
           IN  /\ call' = [fn |-> "mc_dropout_multi",
                           query_strategies |-> query_strategies] @@ a
               /\ predictions_1' = cycles
               /\ result' = out.result
               /\ error' = out.error
               /\ pc' = IF out.error = NoError THEN "returned" ELSE "raised"
    /\ training0' = training
    /\ training' = Sampled(training, modules, <<>>)
    /\ UNCHANGED <<modules, split_args, i, s, probas_1, calls>>

NextStrategies ==
    \/ StrategyCall("mc_dropout_bald")
    \/ StrategyCall("mc_dropout_mean_st")
    \/ StrategyCall("mc_dropout_max_entropy")
    \/ StrategyCall("mc_dropout_max_variationRatios")
    \/ McDropoutMultiCall

SpecStrategies == InitSampler /\ [][NextStrategies]_vars

\* ---------------------------------------------------- strategy properties
InStrategy == call.fn \in Strategies /\ pc # "idle"

\* the metric of the called strategy on the sampled Cycle List, per instance
Scores == Aggregate(MetricOf(call.fn), List(predictions_1)).result.data

\* C12: mc_dropout_multi completes for every pool and every requested set
\* of metrics and returns (None, mapping), the mapping holding for each
\* requested name the full score vector of that metric on the Cycle List.
C12_MultiReturnsMetricMapping ==
    (call.fn = "mc_dropout_multi" /\ pc # "idle") =>
        /\ pc = "returned"
        /\ result[1] = None
        /\ DOMAIN result[2] = call.query_strategies
        /\ \A name \in call.query_strategies :
             /\ result[2][name] =
                  Aggregate(MetricNamed(name), List(predictions_1)).result
             /\ Len(result[2][name].data) = Len(call.X.data)

\* C14: a single-metric strategy asked for more instances than the pool
\* has rows raises a ConfigurationError and returns no selection.
C14_TooManyInstancesRaises ==
    (InStrategy /\ call.n_instances > Len(call.X.data)) =>
        /\ pc = "raised"
        /\ error = ConfigurationError
        /\ result = None

\* one instance too many, asked with random tie break
C14_Witness ==
    /\ InStrategy
    /\ call.fn = "mc_dropout_max_variationRatios"
    /\ call.random_tie_break
    /\ Len(call.X.data) >= 2
    /\ call.n_instances = Len(call.X.data) + 1
    /\ pc = "raised"

\* C15: a single-metric strategy asked for k instances, 1 <= k <= N, returns
\* k distinct indices in [0, N) in the order of descending score, whose
\* scores are the k largest, with the scores of exactly those indices; ties
\* are in index order unless random_tie_break is set.
C15_SelectionIsTopK ==
    (InStrategy /\ call.n_instances <= Len(call.X.data)) =>
        LET scores == Scores
            query_idx == result[1]
        IN  /\ pc = "returned"
            /\ Len(query_idx) = call.n_instances
            /\ \A a \in DOMAIN query_idx :
                 query_idx[a] \in 0 .. Len(call.X.data) - 1
            /\ \A a, b \in DOMAIN query_idx : a < b =>
                 /\ query_idx[a] # query_idx[b]
                 /\ scores[query_idx[a] + 1].v >= scores[query_idx[b] + 1].v
                 /\ (/\ ~call.random_tie_break
                     /\ scores[query_idx[a] + 1].v = scores[query_idx[b] + 1].v)
                        => query_idx[a] < query_idx[b]
            /\ \A m \in DOMAIN scores :
                 (\A a \in DOMAIN query_idx : query_idx[a] # m - 1) =>
                    \A a \in DOMAIN query_idx :
                       scores[m].v <= scores[query_idx[a] + 1].v
            /\ result[2] = [a \in DOMAIN query_idx |-> scores[query_idx[a] + 1]]

\* two of three instances selected under random tie break: the tied best
\* ones, the later one first
C15_Witness ==
    /\ InStrategy
    /\ pc = "returned"
    /\ call.random_tie_break
    /\ Len(call.X.data) = 3
    /\ result[1] = <<1, 0>>
    /\ Scores[1].v = Scores[2].v
    /\ Scores[3].v < Scores[1].v

\* ------------------------------------------------- controller, on failure
\* the layers listed before the first index that is not a dropout layer
ListedBefore(mods, idxs) ==
    {idxs[j] : j \in {k \in 1 .. Len(idxs) :
                        \A o \in Offending(mods, idxs) : k < o}}

\* C21: set_dropout_mode with an explicit selector works through the list in
\* order and undoes nothing: when it raises on an index that is not a dropout
\* layer, the layers listed before that index are in the requested mode and
\* every other module, those listed only after it included, is as it was.
C21_RaiseKeepsEarlierSwitches ==
    (InSetDropoutMode /\ pc # "idle" /\ error.kind = "KeyError") =>
        \A l \in Layers :
            training[l] =
                IF l \in ListedBefore(modules, call.dropout_layer_indexes)
                THEN call.train_mode ELSE training0[l]

\* a raising call that has switched the dropout layer listed first and has
\* left alone a dropout layer not in the requested mode
C21_Witness ==
    /\ InSetDropoutMode
    /\ pc = "called"
    /\ error.kind = "KeyError"
    /\ Len(call.dropout_layer_indexes) = 2
    /\ IsDropout(modules, call.dropout_layer_indexes[1])
    /\ training0[call.dropout_layer_indexes[1]] # call.train_mode
    /\ training[call.dropout_layer_indexes[1]] = call.train_mode
    /\ \E l \in Layers : /\ IsDropout(modules, l)
                         /\ l # call.dropout_layer_indexes[1]
                         /\ training[l] # call.train_mode

\* ------------------------------------------------- the doubled Cycle List
\* the selections the called strategy can make on the score vector values
Selections(values) ==
    IF call.random_tie_break THEN shuffled_argmax(values, call.n_instances)
    ELSE multi_argmax(values, call.n_instances)

====
